---- MODULE Spec2Model ----
(***************************************************************************)
(* Model of the UVM (variant 3) toolchain: the instruction table           *)
(* (spec.py), the command encoder (encoder.py) and the fetch-decode-       *)
(* execute interpreter (interpreter.py).                                   *)
(*                                                                         *)
(* Bytes are naturals in 0..255, byte strings are sequences of bytes.      *)
(* Python integers are unbounded; every intermediate value the modelled    *)
(* code computes on the inputs drawn here stays below 2^31.                *)
(***************************************************************************)
EXTENDS Integers, Sequences, FiniteSets, TLC

\* ------------------------------------------------------------------------
\* spec.py: the opcode table
\* ------------------------------------------------------------------------
LOAD_CONST == 29
READ_MEM == 18
WRITE_MEM == 9
ABS == 25

\* A size table that packs ABS, whose fields end at bit 15, into two bytes.
COMMAND_SIZES_compact(opcode) == IF opcode = 25 THEN 2 ELSE 4

\* COMMAND_SIZES.get(opcode, 4): every entry of the table is 4, and so is
\* the default.
COMMAND_SIZES(opcode) == 4

\* ------------------------------------------------------------------------
\* Python integer operators
\* ------------------------------------------------------------------------
Pow2(n) == 2 ^ n

\* x & y on Python integers (two's complement, infinite sign extension of
\* a negative x; y >= 0).
RECURSIVE BitAnd(_, _)
BitAnd(x, y) ==
    IF y = 0 \/ x = 0 THEN 0
    ELSE (x % 2) * (y % 2) + 2 * BitAnd(x \div 2, y \div 2)

\* x | y for x, y >= 0.
BitOr(x, y) == x + y - BitAnd(x, y)

\* x << s
ShiftLeft(x, s) == x * Pow2(s)

\* value.to_bytes(size, byteorder='big'): the most significant byte first.
to_bytes_big(value, size) ==
    [i \in 1..size |-> (value \div Pow2(8 * (size - i))) % 256]

\* value.to_bytes(size, byteorder='little'), for 0 <= value < 256^size.
to_bytes(value, size) == [i \in 1..size |-> (value \div Pow2(8 * (i - 1))) % 256]

\* x >> s, for x >= 0.
ShiftRight(x, s) == x \div Pow2(s)

\* Byte i (from 0) of a byte string, 0 beyond its end.
ByteAt(bytes, i) == IF i < Len(bytes) THEN bytes[i + 1] ELSE 0

\* int.from_bytes(bytes, byteorder='little') for at most four bytes, without
\* bit 31 of the result: the value modulo 2^31.  Every field the decoder
\* extracts lies in bits 0..30 (the highest is C of LOAD_CONST, bits 26..30),
\* so bit 31 is never read.
from_bytes(bytes) ==
    ByteAt(bytes, 0) + 256 * ByteAt(bytes, 1) + 65536 * ByteAt(bytes, 2)
    + 16777216 * (ByteAt(bytes, 3) % 128)

\* ------------------------------------------------------------------------
\* spec.py: field layout and validation
\* ------------------------------------------------------------------------
\* get_field_masks with the register of LOAD_CONST packed one bit too low
\* (shift 25 in place of 26).
get_field_masks_low_register(opcode) ==
    IF opcode = LOAD_CONST
    THEN [A |-> <<63, 0>>, B |-> <<1048575, 6>>, C |-> <<31, 25>>]
    ELSE [A |-> <<63, 0>>, B |-> <<31, 6>>, C |-> <<31, 11>>]

\* UVMSpec.get_field_masks: (mask, shift) of the fields A, B, C.
get_field_masks(opcode) ==
    IF opcode = LOAD_CONST
    THEN [A |-> <<63, 0>>, B |-> <<1048575, 6>>, C |-> <<31, 26>>]
    ELSE [A |-> <<63, 0>>, B |-> <<31, 6>>, C |-> <<31, 11>>]

\* validate_command with the upper limits of B one too high (0x100000 for
\* LOAD_CONST, 32 for the register family).
validate_command_wide(opcode, operands) ==
    IF opcode \notin {LOAD_CONST, READ_MEM, WRITE_MEM, ABS} THEN FALSE
    ELSE IF "B" \notin DOMAIN operands \/ "C" \notin DOMAIN operands THEN FALSE
    ELSE IF opcode = LOAD_CONST /\ ~(0 <= operands.B /\ operands.B <= 1048576) THEN FALSE
    ELSE IF opcode # LOAD_CONST /\ ~(0 <= operands.B /\ operands.B <= 32) THEN FALSE
    ELSE IF ~(0 <= operands.C /\ operands.C <= 31) THEN FALSE
    ELSE TRUE

\* UVMSpec.validate_command: TRUE when it returns True, FALSE when it raises
\* ValueError.  operands is a record (a dict) that may lack B or C.
validate_command(opcode, operands) ==
    IF opcode \notin {LOAD_CONST, READ_MEM, WRITE_MEM, ABS} THEN FALSE
    ELSE IF "B" \notin DOMAIN operands \/ "C" \notin DOMAIN operands THEN FALSE
    ELSE IF opcode = LOAD_CONST /\ ~(0 <= operands.B /\ operands.B <= 1048575) THEN FALSE
    ELSE IF opcode # LOAD_CONST /\ ~(0 <= operands.B /\ operands.B <= 31) THEN FALSE
    ELSE IF ~(0 <= operands.C /\ operands.C <= 31) THEN FALSE
    ELSE TRUE

\* ------------------------------------------------------------------------
\* encoder.py
\* ------------------------------------------------------------------------
\* CommandEncoder.encode_command: the bytes of one command.
encode_command(cmd) ==
    LET masks == get_field_masks(cmd.opcode)
        v0 == 0
        v1 == BitOr(v0, ShiftLeft(BitAnd(cmd.opcode, masks.A[1]), masks.A[2]))
        v2 == BitOr(v1, ShiftLeft(BitAnd(cmd.operands.B, masks.B[1]), masks.B[2]))
        v3 == BitOr(v2, ShiftLeft(BitAnd(cmd.operands.C, masks.C[1]), masks.C[2]))
    IN  to_bytes(v3, COMMAND_SIZES(cmd.opcode))

\* The loop of encode_program putting each command's bytes in front of the
\* buffer instead of extending it.
RECURSIVE encode_loop_prepending(_, _)
encode_loop_prepending(intermediate, data) ==
    IF intermediate = <<>> THEN data
    ELSE encode_loop_prepending(Tail(intermediate),
                                encode_command(Head(intermediate)) \o data)

\* The loop of CommandEncoder.encode_program: binary_data after all commands
\* were encoded and appended, in input order.
RECURSIVE encode_loop(_, _)
encode_loop(intermediate, data) ==
    IF intermediate = <<>> THEN data
    ELSE encode_loop(Tail(intermediate), data \o encode_command(Head(intermediate)))

\* ------------------------------------------------------------------------
\* parser.py
\* ------------------------------------------------------------------------
\* A command of the YAML file is a record (a dict) that may lack the keys
\* opcode and operands.  An entry of the intermediate representation carries
\* the command's index, opcode and operands (its description, a text derived
\* from opcode and operands, is left out).
NoEntry == [index |-> 0, opcode |-> 0, operands |-> [B |-> 0, C |-> 0]]

\* YamlParser._parse_command: ok = FALSE stands for the ValueError it raises;
\* entry is what it appends to intermediate_repr otherwise.
parse_command(cmd_idx, cmd_data) ==
    IF "opcode" \notin DOMAIN cmd_data THEN [ok |-> FALSE, entry |-> NoEntry]
    ELSE IF "operands" \notin DOMAIN cmd_data THEN [ok |-> FALSE, entry |-> NoEntry]
    ELSE IF ~validate_command(cmd_data.opcode, cmd_data.operands)
    THEN [ok |-> FALSE, entry |-> NoEntry]
    ELSE [ok |-> TRUE,
          entry |-> [index |-> cmd_idx, opcode |-> cmd_data.opcode,
                     operands |-> cmd_data.operands]]

\* The loop of YamlParser.parse over data['commands'], cmd_idx counting from
\* 1: a failing command adds its index to errors and the loop goes on.
RECURSIVE parse_loop(_, _, _, _)
parse_loop(commands, cmd_idx, repr, errs) ==
    IF cmd_idx > Len(commands)
    THEN [intermediate_repr |-> repr, errors |-> errs]
    ELSE LET c == parse_command(cmd_idx, commands[cmd_idx])
         IN  IF c.ok
             THEN parse_loop(commands, cmd_idx + 1, Append(repr, c.entry), errs)
             ELSE parse_loop(commands, cmd_idx + 1, repr, Append(errs, cmd_idx))

\* parse returning the commands that passed even when others failed.
parse_returning_partial(data) ==
    IF data.is_none \/ "commands" \notin data.keys
    THEN [returned |-> FALSE, intermediate_repr |-> <<>>, errors |-> <<>>]
    ELSE LET r == parse_loop(data.commands, 1, <<>>, <<>>)
         IN  [returned |-> TRUE,
              intermediate_repr |-> r.intermediate_repr,
              errors |-> r.errors]

\* YamlParser.parse on the loaded YAML document: returned = FALSE stands for
\* the ValueError it raises; intermediate_repr and errors are the parser's
\* attributes when it ends.
parse(data) ==
    IF data.is_none \/ "commands" \notin data.keys
    THEN [returned |-> FALSE, intermediate_repr |-> <<>>, errors |-> <<>>]
    ELSE LET r == parse_loop(data.commands, 1, <<>>, <<>>)
         IN  [returned |-> r.errors = <<>>,
              intermediate_repr |-> r.intermediate_repr,
              errors |-> r.errors]

\* ------------------------------------------------------------------------
\* interpreter.py: decoding
\* ------------------------------------------------------------------------
\* decode_instruction without its length check.
decode_instruction_any_length(instruction_bytes) ==
    LET instruction == from_bytes(instruction_bytes)
        opcode == BitAnd(ShiftRight(instruction, 0), 63)
        B == IF opcode = LOAD_CONST
             THEN BitAnd(ShiftRight(instruction, 6), 1048575)
             ELSE BitAnd(ShiftRight(instruction, 6), 31)
        C == IF opcode = LOAD_CONST
             THEN BitAnd(ShiftRight(instruction, 26), 31)
             ELSE BitAnd(ShiftRight(instruction, 11), 31)
    IN  [ok |-> validate_command(opcode, [B |-> B, C |-> C]),
         opcode |-> opcode, operands |-> [B |-> B, C |-> C]]

\* decode_instruction taking every bit above a field's position as part of
\* the field, and checking the opcode only.
decode_instruction_unmasked(instruction_bytes) ==
    IF Len(instruction_bytes) # 4
    THEN [ok |-> FALSE, opcode |-> 0, operands |-> [B |-> 0, C |-> 0]]
    ELSE LET instruction == from_bytes(instruction_bytes)
             opcode == BitAnd(ShiftRight(instruction, 0), 63)
             B == IF opcode = LOAD_CONST
                  THEN BitAnd(ShiftRight(instruction, 6), 1048575)
                  ELSE ShiftRight(instruction, 6)
             C == IF opcode = LOAD_CONST
                  THEN ShiftRight(instruction, 26)
                  ELSE ShiftRight(instruction, 11)
         IN  [ok |-> opcode \in {LOAD_CONST, READ_MEM, WRITE_MEM, ABS},
              opcode |-> opcode, operands |-> [B |-> B, C |-> C]]

\* decode_instruction rejecting a word that has a reserved bit set.
decode_instruction_rejecting_reserved(instruction_bytes) ==
    IF Len(instruction_bytes) # 4
    THEN [ok |-> FALSE, opcode |-> 0, operands |-> [B |-> 0, C |-> 0]]
    ELSE LET instruction == from_bytes(instruction_bytes)
             opcode == BitAnd(ShiftRight(instruction, 0), 63)
             B == IF opcode = LOAD_CONST
                  THEN BitAnd(ShiftRight(instruction, 6), 1048575)
                  ELSE BitAnd(ShiftRight(instruction, 6), 31)
             C == IF opcode = LOAD_CONST
                  THEN BitAnd(ShiftRight(instruction, 26), 31)
                  ELSE BitAnd(ShiftRight(instruction, 11), 31)
             reserved == IF opcode = LOAD_CONST
                         THEN instruction_bytes[4] \div 128
                         ELSE instruction_bytes[3] + instruction_bytes[4]
         IN  [ok |-> reserved = 0 /\ validate_command(opcode, [B |-> B, C |-> C]),
              opcode |-> opcode, operands |-> [B |-> B, C |-> C]]

\* UVMMemory.decode_instruction.  ok = FALSE stands for the ValueError it
\* raises (wrong length, or validate_command failed).
decode_instruction(instruction_bytes) ==
    IF Len(instruction_bytes) # 4
    THEN [ok |-> FALSE, opcode |-> 0, operands |-> [B |-> 0, C |-> 0]]
    ELSE LET instruction == from_bytes(instruction_bytes)
             opcode == BitAnd(ShiftRight(instruction, 0), 63)
             B == IF opcode = LOAD_CONST
                  THEN BitAnd(ShiftRight(instruction, 6), 1048575)
                  ELSE BitAnd(ShiftRight(instruction, 6), 31)
             C == IF opcode = LOAD_CONST
                  THEN BitAnd(ShiftRight(instruction, 26), 31)
                  ELSE BitAnd(ShiftRight(instruction, 11), 31)
         IN  [ok |-> validate_command(opcode, [B |-> B, C |-> C]),
              opcode |-> opcode, operands |-> [B |-> B, C |-> C]]

\* ------------------------------------------------------------------------
\* interpreter.py: machine state
\* ------------------------------------------------------------------------
\* Defaults of UVMMemory.__init__(data_size=1024, reg_count=32), the values
\* InterpreterCLI constructs the machine with.
data_size == 1024
reg_count == 32

VARIABLES
    binary_path,       \* the file load_program was pointed at
    code_memory,       \* UVMMemory.code_memory: the loaded program bytes
    data_memory,       \* UVMMemory.data_memory: function 0..data_size-1 -> value
    registers,         \* UVMMemory.registers: function 0..reg_count-1 -> value
    pc,                \* UVMMemory.pc
    halted,            \* UVMMemory.halted
    stats,             \* UVMMemory.stats
    halt_cause,        \* history: the statement of step/read_instruction that set halted
    call,              \* the last method called on the machine or encoder, with its argument
    ret,               \* what that call returned (FALSE for a call returning no boolean)
    raised,            \* whether that call ended by raising an exception
    step_calls,        \* history: calls of step() made by the last run()
    reported,          \* history: <<cause, returned value>> of every run() so far
    intermediate_repr, \* the command list handed to encode_program
    binary_data,       \* CommandEncoder.binary_data
    encoded_commands,  \* CommandEncoder.encoded_commands (the 'bytes' entries)
    out_file,          \* the file save_to_file writes
    decoded,           \* result of decode_instruction on a chunk of out_file
    yaml_data,         \* what yaml.safe_load returned for the file given to YamlParser.parse
    parser_repr,       \* YamlParser.intermediate_repr
    errors,            \* YamlParser.errors: the indices of the commands that failed
    xml,               \* what the last dump_memory_xml returned and wrote
    prev_xml,          \* history: what the call before the last returned, if it was a dump
    succeeded          \* history: the steps that returned True so far, by what they executed

machine_vars == <<code_memory, data_memory, registers, pc, halted, stats, halt_cause>>
encoder_vars == <<intermediate_repr, binary_data, encoded_commands, out_file, decoded>>
parser_vars == <<yaml_data, parser_repr, errors>>
vars == <<binary_path, code_memory, data_memory, registers, pc, halted, stats, halt_cause,
          call, ret, raised, step_calls, reported,
          intermediate_repr, binary_data, encoded_commands, out_file, decoded,
          yaml_data, parser_repr, errors, xml, prev_xml, succeeded>>

\* The machine as one value, threaded through the methods below.
Machine ==
    [code_memory |-> code_memory, data_memory |-> data_memory,
     registers |-> registers, pc |-> pc, halted |-> halted, stats |-> stats,
     halt_cause |-> halt_cause]

\* UVMMemory.__init__
NewMachine ==
    [code_memory |-> <<>>,
     data_memory |-> [a \in 0..(data_size - 1) |-> 0],
     registers |-> [r \in 0..(reg_count - 1) |-> 0],
     pc |-> 0, halted |-> FALSE,
     stats |-> [instructions_executed |-> 0, memory_reads |-> 0, memory_writes |-> 0],
     halt_cause |-> "none"]

\* read_instruction advancing pc by 4 past a trailing partial word as well.
read_instruction_tail_plus4(m) ==
    IF m.pc >= Len(m.code_memory)
    THEN [m |-> [m EXCEPT !.halted = TRUE, !.halt_cause = "end"],
          none |-> TRUE, instruction |-> <<>>]
    ELSE [m |-> [m EXCEPT !.pc = m.pc + 4],
          none |-> FALSE,
          instruction |-> SubSeq(m.code_memory, m.pc + 1,
                                 IF m.pc + 4 > Len(m.code_memory)
                                 THEN Len(m.code_memory) ELSE m.pc + 4)]

\* read_instruction setting pc back to 0 when it finds the code exhausted.
read_instruction_rewinding(m) ==
    IF m.pc >= Len(m.code_memory)
    THEN [m |-> [m EXCEPT !.halted = TRUE, !.halt_cause = "end", !.pc = 0],
          none |-> TRUE, instruction |-> <<>>]
    ELSE IF m.pc + 4 > Len(m.code_memory)
    THEN [m |-> [m EXCEPT !.pc = Len(m.code_memory)],
          none |-> FALSE,
          instruction |-> SubSeq(m.code_memory, m.pc + 1, Len(m.code_memory))]
    ELSE [m |-> [m EXCEPT !.pc = m.pc + 4],
          none |-> FALSE,
          instruction |-> SubSeq(m.code_memory, m.pc + 1, m.pc + 4)]

\* UVMMemory.read_instruction.  none = TRUE stands for the returned None.
read_instruction(m) ==
    IF m.pc >= Len(m.code_memory)
    THEN [m |-> [m EXCEPT !.halted = TRUE, !.halt_cause = "end"],
          none |-> TRUE, instruction |-> <<>>]
    ELSE IF m.pc + 4 > Len(m.code_memory)
    THEN [m |-> [m EXCEPT !.pc = Len(m.code_memory)],
          none |-> FALSE,
          instruction |-> SubSeq(m.code_memory, m.pc + 1, Len(m.code_memory))]
    ELSE [m |-> [m EXCEPT !.pc = m.pc + 4],
          none |-> FALSE,
          instruction |-> SubSeq(m.code_memory, m.pc + 1, m.pc + 4)]

\* The execute_* methods return [m, ok]; ok = FALSE stands for a raised
\* IndexError or ValueError (m is then the state at the raise).

\* execute_load_const adding the constant to what the register holds.
execute_load_const_accumulating(m, operands) ==
    [m |-> [m EXCEPT !.registers[operands.C] = @ + operands.B], ok |-> TRUE]

\* execute_load_const taking the constant as a signed 20-bit number.
execute_load_const_sign_extending(m, operands) ==
    [m |-> [m EXCEPT !.registers[operands.C] =
                        IF operands.B >= 524288 THEN operands.B - 1048576
                        ELSE operands.B],
     ok |-> TRUE]

\* UVMMemory.execute_load_const
execute_load_const(m, operands) ==
    LET const_value == operands.B
        reg_addr == operands.C
    IN  IF reg_addr \in DOMAIN m.registers
        THEN [m |-> [m EXCEPT !.registers[reg_addr] = const_value], ok |-> TRUE]
        ELSE [m |-> m, ok |-> FALSE]

\* execute_read_mem clearing the destination register before it reads the
\* address register.
execute_read_mem_after_clear(m, operands) ==
    LET cleared == [m.registers EXCEPT ![operands.B] = 0]
        mem_addr == cleared[operands.C]
    IN  IF 0 <= mem_addr /\ mem_addr < data_size
        THEN [m |-> [m EXCEPT !.registers[operands.B] = m.data_memory[mem_addr],
                              !.stats.memory_reads = @ + 1],
              ok |-> TRUE]
        ELSE [m |-> m, ok |-> FALSE]

\* UVMMemory.execute_read_mem
execute_read_mem(m, operands) ==
    LET dest_reg == operands.B
        src_reg == operands.C
    IN  IF src_reg \notin DOMAIN m.registers THEN [m |-> m, ok |-> FALSE]
        ELSE LET mem_addr == m.registers[src_reg]
             IN  IF 0 <= mem_addr /\ mem_addr < data_size
                 THEN IF dest_reg \notin DOMAIN m.registers THEN [m |-> m, ok |-> FALSE]
                      ELSE [m |-> [m EXCEPT !.registers[dest_reg] = m.data_memory[mem_addr],
                                            !.stats.memory_reads = @ + 1],
                            ok |-> TRUE]
                 ELSE [m |-> m, ok |-> FALSE]

\* execute_write_mem wrapping the address into the data memory instead of
\* checking it.
execute_write_mem_wrapping(m, operands) ==
    LET mem_addr == m.registers[operands.B] % data_size
        value == m.registers[operands.C]
    IN  [m |-> [m EXCEPT !.data_memory[mem_addr] = value,
                          !.stats.memory_writes = @ + 1],
         ok |-> TRUE]

\* execute_write_mem with the roles of B and C exchanged.
execute_write_mem_swapped(m, operands) ==
    LET mem_addr == m.registers[operands.C]
        value == m.registers[operands.B]
    IN  IF 0 <= mem_addr /\ mem_addr < data_size
        THEN [m |-> [m EXCEPT !.data_memory[mem_addr] = value,
                              !.stats.memory_writes = @ + 1],
              ok |-> TRUE]
        ELSE [m |-> m, ok |-> FALSE]

\* execute_write_mem that stores the value but does not count the write.
execute_write_mem_uncounted(m, operands) ==
    LET mem_addr == m.registers[operands.B]
        value == m.registers[operands.C]
    IN  IF 0 <= mem_addr /\ mem_addr < data_size
        THEN [m |-> [m EXCEPT !.data_memory[mem_addr] = value], ok |-> TRUE]
        ELSE [m |-> m, ok |-> FALSE]

\* UVMMemory.execute_write_mem
execute_write_mem(m, operands) ==
    LET mem_reg == operands.B
        src_reg == operands.C
    IN  IF mem_reg \notin DOMAIN m.registers \/ src_reg \notin DOMAIN m.registers
        THEN [m |-> m, ok |-> FALSE]
        ELSE LET mem_addr == m.registers[mem_reg]
                 value == m.registers[src_reg]
             IN  IF 0 <= mem_addr /\ mem_addr < data_size
                 THEN [m |-> [m EXCEPT !.data_memory[mem_addr] = value,
                                       !.stats.memory_writes = @ + 1],
                       ok |-> TRUE]
                 ELSE [m |-> m, ok |-> FALSE]

\* execute_instruction with ABS storing the value of register C at the
\* address held in register B.
execute_instruction_abs_stores(m, dec) ==
    IF dec.opcode = LOAD_CONST THEN execute_load_const(m, dec.operands)
    ELSE IF dec.opcode = READ_MEM THEN execute_read_mem(m, dec.operands)
    ELSE IF dec.opcode = WRITE_MEM THEN execute_write_mem(m, dec.operands)
    ELSE IF dec.opcode = ABS THEN execute_write_mem(m, dec.operands)
    ELSE [m |-> m, ok |-> FALSE]

\* UVMMemory.execute_instruction
execute_instruction(m, dec) ==
    IF dec.opcode = LOAD_CONST THEN execute_load_const(m, dec.operands)
    ELSE IF dec.opcode = READ_MEM THEN execute_read_mem(m, dec.operands)
    ELSE IF dec.opcode = WRITE_MEM THEN execute_write_mem(m, dec.operands)
    ELSE IF dec.opcode = ABS THEN [m |-> m, ok |-> TRUE]
    ELSE [m |-> m, ok |-> FALSE]

\* step skipping a word that fails to decode instead of halting on it.
step_body_skipping_undecodable(m) ==
    LET rd == read_instruction(m)
    IN  IF rd.none
        THEN [m |-> [rd.m EXCEPT !.halted = TRUE], ret |-> FALSE]
        ELSE LET dec == decode_instruction(rd.instruction)
             IN  IF ~dec.ok
                 THEN [m |-> rd.m, ret |-> TRUE]
                 ELSE LET ex == execute_instruction(rd.m, dec)
                      IN  IF ex.ok
                          THEN [m |-> [ex.m EXCEPT !.stats.instructions_executed = @ + 1],
                                ret |-> TRUE]
                          ELSE [m |-> [ex.m EXCEPT !.halted = TRUE,
                                                   !.halt_cause = "bounds"],
                                ret |-> FALSE]

\* step counting an instruction whose execution failed as executed.
step_body_counting_failures(m) ==
    LET rd == read_instruction(m)
    IN  IF rd.none
        THEN [m |-> [rd.m EXCEPT !.halted = TRUE], ret |-> FALSE]
        ELSE LET dec == decode_instruction(rd.instruction)
             IN  IF ~dec.ok
                 THEN [m |-> [rd.m EXCEPT
                                !.halted = TRUE,
                                !.halt_cause =
                                   IF Len(rd.instruction) # 4 THEN "tail" ELSE "decode"],
                       ret |-> FALSE]
                 ELSE LET ex == execute_instruction(rd.m, dec)
                      IN  IF ex.ok
                          THEN [m |-> [ex.m EXCEPT !.stats.instructions_executed = @ + 1],
                                ret |-> TRUE]
                          ELSE [m |-> [ex.m EXCEPT !.stats.instructions_executed = @ + 1,
                                                   !.halted = TRUE,
                                                   !.halt_cause = "bounds"],
                                ret |-> FALSE]

\* step leaving pc where it was and going on when a word fails to decode.
step_body_retrying_undecodable(m) ==
    LET rd == read_instruction(m)
    IN  IF rd.none
        THEN [m |-> [rd.m EXCEPT !.halted = TRUE], ret |-> FALSE]
        ELSE LET dec == decode_instruction(rd.instruction)
             IN  IF ~dec.ok
                 THEN [m |-> m, ret |-> TRUE]
                 ELSE LET ex == execute_instruction(rd.m, dec)
                      IN  IF ex.ok
                          THEN [m |-> [ex.m EXCEPT !.stats.instructions_executed = @ + 1],
                                ret |-> TRUE]
                          ELSE [m |-> [ex.m EXCEPT !.halted = TRUE,
                                                   !.halt_cause = "bounds"],
                                ret |-> FALSE]

\* What step does once it is past its halted check.
step_body(m) ==
    LET rd == read_instruction(m)
    IN  IF rd.none
        THEN [m |-> [rd.m EXCEPT !.halted = TRUE], ret |-> FALSE]
        ELSE LET dec == decode_instruction(rd.instruction)
             IN  IF ~dec.ok
                 THEN [m |-> [rd.m EXCEPT
                                !.halted = TRUE,
                                !.halt_cause =
                                   IF Len(rd.instruction) # 4 THEN "tail" ELSE "decode"],
                       ret |-> FALSE]
                 ELSE LET ex == execute_instruction(rd.m, dec)
                      IN  IF ex.ok
                          THEN [m |-> [ex.m EXCEPT !.stats.instructions_executed = @ + 1],
                                ret |-> TRUE]
                          ELSE [m |-> [ex.m EXCEPT !.halted = TRUE,
                                                   !.halt_cause = "bounds"],
                                ret |-> FALSE]

\* step without its halted check: a halted machine fetches the next word.
step_ignoring_halted(m) == step_body(m)

\* UVMMemory.step: [m, ret].
step(m) ==
    IF m.halted THEN [m |-> m, ret |-> FALSE]
    ELSE step_body(m)

\* The while loop of UVMMemory.run: [m, step_count, calls], calls being the
\* number of times step() was called.
RECURSIVE run_loop(_, _, _, _)
run_loop(m, step_count, calls, max_steps) ==
    IF ~m.halted /\ step_count < max_steps
    THEN LET s == step(m)
         IN  IF ~s.ret
             THEN [m |-> s.m, step_count |-> step_count, calls |-> calls + 1]
             ELSE run_loop(s.m, step_count + 1, calls + 1, max_steps)
    ELSE [m |-> m, step_count |-> step_count, calls |-> calls]

\* run comparing step_count <= max_steps: one step beyond the ceiling.
run_ceiling_inclusive(m, max_steps) ==
    LET r == run_loop(m, 0, 0, max_steps + 1)
    IN  [m |-> r.m, ret |-> r.m.halted, step_count |-> r.step_count, calls |-> r.calls]

\* run starting the program over from its first word on every call.
run_restarting(m, max_steps) ==
    LET r == run_loop([m EXCEPT !.pc = 0], 0, 0, max_steps)
    IN  [m |-> r.m, ret |-> r.m.halted, step_count |-> r.step_count, calls |-> r.calls]

\* UVMMemory.run: [m, ret, step_count, calls].
run(m, max_steps) ==
    LET r == run_loop(m, 0, 0, max_steps)
    IN  [m |-> r.m, ret |-> r.m.halted, step_count |-> r.step_count, calls |-> r.calls]

\* What run() tells its caller about why it stopped: the branch of its
\* closing if/elif, and for a halted machine the statement that halted it.
run_cause(r, max_steps) ==
    IF r.m.halted THEN r.m.halt_cause
    ELSE IF r.step_count >= max_steps THEN "ceiling"
    ELSE "none"

\* ------------------------------------------------------------------------
\* interpreter.py: the memory dump
\* ------------------------------------------------------------------------
Min(a, b) == IF a <= b THEN a ELSE b

\* The digits of f"{value:X}", most significant first, for value >= 0.
RECURSIVE HexDigits(_)
HexDigits(value) ==
    IF value < 16 THEN <<value>>
    ELSE Append(HexDigits(value \div 16), value % 16)

\* dump_memory_xml that takes its snapshot and then clears the counters.
dump_memory_xml_clearing_stats(m, start_addr, end_addr) ==
    [raised |-> FALSE,
     m |-> [m EXCEPT !.stats = [instructions_executed |-> 0, memory_reads |-> 0,
                                memory_writes |-> 0]],
     xml |-> [taken |-> TRUE,
              instructions_executed |-> m.stats.instructions_executed,
              memory_reads |-> m.stats.memory_reads,
              memory_writes |-> m.stats.memory_writes,
              program_counter |-> m.pc,
              registers |-> <<>>,
              start_address |-> start_addr,
              end_address |-> IF end_addr = <<>> THEN data_size ELSE end_addr[1],
              total_size |-> data_size,
              memory_cells |-> <<>>]]

\* UVMMemory.dump_memory_xml: [raised, m, xml].  end_addr is <<>> for None
\* and <<e>> for the integer e.  xml is the document it builds, writes and
\* returns: the text of every element and attribute, in document order,
\* numbers standing for their decimal text and digit sequences for the hex
\* text.  A negative address indexes the data memory from its end, as a
\* Python list does; one below -data_size raises IndexError before anything
\* is written (raised = TRUE).
dump_memory_xml(m, start_addr, end_addr) ==
    LET end == IF end_addr = <<>>
               THEN Min(data_size, start_addr + 100)
               ELSE end_addr[1]
        stop == Min(end, data_size)
        count == IF stop > start_addr THEN stop - start_addr ELSE 0
        cell(addr) == m.data_memory[IF addr < 0 THEN addr + data_size ELSE addr]
    IN  IF count > 0 /\ start_addr < 0 - data_size
        THEN [raised |-> TRUE, m |-> m, xml |-> [taken |-> FALSE]]
        ELSE [raised |-> FALSE,
              m |-> m,
              xml |->
                [taken |-> TRUE,
                 instructions_executed |-> m.stats.instructions_executed,
                 memory_reads |-> m.stats.memory_reads,
                 memory_writes |-> m.stats.memory_writes,
                 program_counter |-> m.pc,
                 registers |->
                    SelectSeq([i \in 1..reg_count |->
                                  [id |-> i - 1, value |-> m.registers[i - 1],
                                   hex |-> HexDigits(m.registers[i - 1])]],
                              LAMBDA r : r.value # 0),
                 start_address |-> start_addr,
                 end_address |-> end,
                 total_size |-> data_size,
                 memory_cells |->
                    SelectSeq([k \in 1..count |->
                                  [address |-> start_addr + k - 1,
                                   value |-> cell(start_addr + k - 1),
                                   hex |-> HexDigits(cell(start_addr + k - 1))]],
                              LAMBDA c : c.value # 0)]]

\* ------------------------------------------------------------------------
\* Inputs
\* ------------------------------------------------------------------------
Cmd(opcode, B, C) == [opcode |-> opcode, operands |-> [B |-> B, C |-> C]]

\* Longest generic program, in words; largest step ceiling passed to run;
\* longest command list handed to the encoder.
MaxWords == 2
MaxSteps == 5
MaxCmds == 2

\* All sequences over S of length at most n.
RECURSIVE SeqsUpTo(_, _)
SeqsUpTo(S, n) ==
    IF n = 0 THEN {<<>>}
    ELSE LET shorter == SeqsUpTo(S, n - 1)
         IN  shorter \cup {Append(q, e) : q \in {t \in shorter : Len(t) = n - 1}, e \in S}

RECURSIVE Flatten(_)
Flatten(words) == IF words = <<>> THEN <<>> ELSE Head(words) \o Flatten(Tail(words))

\* Words a program file may hold: encodings of valid commands (addresses on
\* both sides of data_size), a word with an unknown opcode, and a valid word
\* with its reserved bit set: LOAD_CONST(1048574, r31) with bit 31 set.
Words ==
    { encode_command(Cmd(LOAD_CONST, 5, 1)),
      encode_command(Cmd(LOAD_CONST, 1024, 0)),
      encode_command(Cmd(WRITE_MEM, 0, 1)),
      encode_command(Cmd(READ_MEM, 2, 0)),
      encode_command(Cmd(ABS, 0, 1)),
      <<0, 0, 0, 0>>,
      <<157, 255, 255, 255>> }

\* Trailing partial words (none, one byte, three bytes).
Tails == { <<>>, <<29>>, <<18, 16, 0>> }

GenericFiles == { Flatten(ws) \o t : ws \in SeqsUpTo(Words, MaxWords), t \in Tails }

\* The write-then-read program of the execution-correctness property.
WTRParams ==
    { p \in [a : {0, 100, 1023}, v : {0, 5, 1048575},
             ri : {0, 1, 31}, rj : {0, 1, 31}, rk : {0, 2, 31}] : p.ri # p.rj }

WTRCommands(p) ==
    << Cmd(LOAD_CONST, p.a, p.ri), Cmd(LOAD_CONST, p.v, p.rj),
       Cmd(WRITE_MEM, p.ri, p.rj), Cmd(READ_MEM, p.rk, p.ri) >>

WTRCode(p) == encode_loop(WTRCommands(p), <<>>)

\* The program files load_program may be pointed at.  A file is named by
\* what it holds: raw bytes, or the write-then-read program of parameters p.
NoParams == [a |-> 0, v |-> 0, ri |-> 0, rj |-> 0, rk |-> 0]
RawFile(bytes) == [kind |-> "raw", bytes |-> bytes, p |-> NoParams]
WTRFile(p) == [kind |-> "wtr", bytes |-> <<>>, p |-> p]
NoFile == [kind |-> "none", bytes |-> <<>>, p |-> NoParams]

\* The file save_to_file wrote.
OutFile == [kind |-> "out", bytes |-> <<>>, p |-> NoParams]

Files == { RawFile(f) : f \in GenericFiles } \cup { WTRFile(p) : p \in WTRParams }

\* The bytes open(binary_path, 'rb').read() returns.
FileBytes(path) ==
    IF path.kind = "wtr" THEN WTRCode(path.p)
    ELSE IF path.kind = "out" THEN out_file.bytes
    ELSE path.bytes

\* A few files, one per way a run can end, and more that hold a chunk
\* decode_instruction rejects: a tail of one or of three bytes, and words
\* with the opcode bits 0, 10 and 63, as first or as second word; and one
\* of LOAD_CONSTs that overwrite registers already loaded, one of them with
\* its reserved bit set, after a cell of the data memory was written; and
\* two of register-family words with reserved bits set: READ_MEM(0, 0),
\* WRITE_MEM(31, 31) and ABS(31, 31) with bits 16..31 all set, and
\* READ_MEM(31, 31) with all set and WRITE_MEM(0, 0) with bit 16 set.
RunFiles ==
    { RawFile(<<>>),
      RawFile(encode_command(Cmd(ABS, 0, 1))),
      RawFile(encode_command(Cmd(LOAD_CONST, 1024, 0)) \o <<0, 0, 0, 0>>),
      RawFile(encode_command(Cmd(LOAD_CONST, 1024, 0))
              \o encode_command(Cmd(WRITE_MEM, 0, 1))),
      RawFile(encode_command(Cmd(LOAD_CONST, 1024, 0)) \o <<29>>),
      RawFile(<<18, 16, 0>>),
      RawFile(encode_command(Cmd(LOAD_CONST, 5, 1)) \o <<255, 255, 255, 255>>),
      RawFile(<<10, 0, 0, 0>> \o encode_command(Cmd(ABS, 0, 1))),
      RawFile(encode_command(Cmd(LOAD_CONST, 5, 1))
              \o encode_command(Cmd(WRITE_MEM, 1, 1))
              \o <<157, 255, 255, 255>>
              \o encode_command(Cmd(LOAD_CONST, 7, 1))
              \o encode_command(Cmd(LOAD_CONST, 0, 31))),
      RawFile(<<18, 0, 255, 255>> \o <<201, 255, 255, 255>> \o <<217, 255, 255, 255>>),
      RawFile(encode_command(Cmd(LOAD_CONST, 3, 31)) \o <<210, 255, 255, 255>>
              \o <<9, 0, 1, 0>>) }

\* Commands handed to the encoder: the four opcodes and 93 (unknown; its low
\* six bits are 29), operands at and just beyond each field's range.
Commands ==
    { Cmd(o, b, c) : o \in {LOAD_CONST, READ_MEM, WRITE_MEM, ABS, 93},
                     b \in {0, 31, 32, 515, 1048575, 1048576},
                     c \in {0, 4, 31, 32} }

\* Commands that command lists of more than one entry are built from: the
\* four literal fixtures of the specification tests, and one command for
\* each way validate_command fails.
ListCommands ==
    { Cmd(LOAD_CONST, 515, 4), Cmd(READ_MEM, 0, 2),
      Cmd(WRITE_MEM, 13, 24), Cmd(ABS, 26, 22),
      Cmd(93, 0, 0), Cmd(READ_MEM, 32, 0), Cmd(ABS, 0, 32) }

CommandLists == { <<c>> : c \in Commands } \cup SeqsUpTo(ListCommands, MaxCmds)

\* YAML documents: none (an empty file), one without the key 'commands', and
\* one holding a list of commands.
NoYaml == [is_none |-> TRUE, keys |-> {}, commands |-> <<>>]
OtherYaml == [is_none |-> FALSE, keys |-> {"program"}, commands |-> <<>>]
Yaml(commands) == [is_none |-> FALSE, keys |-> {"commands"}, commands |-> commands]

\* Commands a YAML file may hold: those of Commands, negative operands, and
\* commands that lack a key.
YamlCommands ==
    Commands \cup
    { Cmd(LOAD_CONST, -1, 0), Cmd(READ_MEM, -1, 0), Cmd(ABS, 0, -1),
      [opcode |-> LOAD_CONST],
      [operands |-> [B |-> 0, C |-> 0]],
      [opcode |-> WRITE_MEM, operands |-> [B |-> 1]],
      [opcode |-> WRITE_MEM, operands |-> [C |-> 1]] }

\* Programs that store through r1 or r2: the address register holds an
\* address at either end of the data memory or just beyond it, and the two
\* registers of WRITE_MEM are distinct or the same.
WritePrograms ==
    { << Cmd(LOAD_CONST, a, 1), Cmd(LOAD_CONST, v, 2), Cmd(WRITE_MEM, bc[1], bc[2]) >> :
         a \in {0, 7, 1023, 1024}, v \in {0, 5, 1048575},
         bc \in {<<1, 2>>, <<1, 1>>, <<2, 1>>} }
    \cup
    { << Cmd(LOAD_CONST, 7, 1), Cmd(LOAD_CONST, 5, 2), Cmd(WRITE_MEM, 1, 2),
         Cmd(WRITE_MEM, bc[1], bc[2]) >> : bc \in {<<2, 1>>, <<1, 1>>, <<1, 0>>} }

\* Programs that reach an ABS with non-zero registers and data memory, and
\* go on after it.
AbsPrograms ==
    { << Cmd(LOAD_CONST, 7, 1), Cmd(LOAD_CONST, 5, 2), Cmd(WRITE_MEM, 1, 2),
         Cmd(ABS, b, c), Cmd(READ_MEM, 3, 1) >> : b \in {0, 1, 2, 31}, c \in {0, 1, 2, 31} }

\* Programs that store a value and then load through r1, r2 or r0: the
\* destination and the address register are distinct or the same, the
\* address register holds the address written, another one or one beyond the
\* data memory, and a second READ_MEM follows a first that overwrote its own
\* address register.
ReadPrograms ==
    { << Cmd(LOAD_CONST, a, 1), Cmd(LOAD_CONST, v, 2), Cmd(WRITE_MEM, 1, 2),
         Cmd(READ_MEM, bc[1], bc[2]) >> :
         a \in {0, 7, 1023}, v \in {5, 1048575},
         bc \in {<<3, 1>>, <<1, 1>>, <<2, 1>>, <<1, 2>>, <<0, 0>>} }
    \cup
    { << Cmd(LOAD_CONST, 7, 1), Cmd(LOAD_CONST, 5, 2), Cmd(WRITE_MEM, 1, 2),
         Cmd(READ_MEM, 1, 1), Cmd(READ_MEM, bc[1], bc[2]) >> :
         bc \in {<<4, 1>>, <<1, 1>>, <<2, 0>>} }

YamlFiles ==
    { NoYaml, OtherYaml }
    \cup { Yaml(<<c>>) : c \in YamlCommands }
    \cup { Yaml(l) : l \in SeqsUpTo(ListCommands, MaxCmds) }
    \cup { Yaml(l) : l \in WritePrograms \cup AbsPrograms \cup ReadPrograms }

\* ------------------------------------------------------------------------
\* Initial state and actions
\* ------------------------------------------------------------------------
NoCall == [op |-> "init", arg |-> 0]

\* No snapshot was taken yet.
NoXml == [taken |-> FALSE]

\* No step has returned True yet.
NoSuccess == [steps |-> 0, read_mem |-> 0, write_mem |-> 0]

\* How many of the next n calls of step() on machine m, each of which returns
\* True, execute a word whose opcode bits are opcode.
RECURSIVE tally(_, _, _)
tally(m, n, opcode) ==
    IF n = 0 THEN 0
    ELSE (IF m.code_memory[m.pc + 1] % 64 = opcode THEN 1 ELSE 0)
         + tally(step(m).m, n - 1, opcode)

\* The history after n more calls of step() on machine m returned True.
Succeeded(m, n) ==
    [steps |-> succeeded.steps + n,
     read_mem |-> succeeded.read_mem + tally(m, n, READ_MEM),
     write_mem |-> succeeded.write_mem + tally(m, n, WRITE_MEM)]

InitMachine ==
    /\ binary_path = NoFile
    /\ code_memory = NewMachine.code_memory
    /\ data_memory = NewMachine.data_memory
    /\ registers = NewMachine.registers
    /\ pc = NewMachine.pc
    /\ halted = NewMachine.halted
    /\ stats = NewMachine.stats
    /\ halt_cause = NewMachine.halt_cause
    /\ call = NoCall
    /\ ret = FALSE
    /\ raised = FALSE
    /\ step_calls = 0
    /\ reported = {}
    /\ xml = NoXml
    /\ prev_xml = NoXml
    /\ succeeded = NoSuccess

\* CommandEncoder.__init__, and no output file yet.
InitEncoder ==
    /\ binary_data = <<>>
    /\ encoded_commands = <<>>
    /\ out_file = [exists |-> FALSE, bytes |-> <<>>]
    /\ decoded = [index |-> 0, ok |-> FALSE, opcode |-> 0, operands |-> [B |-> 0, C |-> 0]]

\* YamlParser.__init__, and no YAML file.
InitParser ==
    /\ yaml_data = NoYaml
    /\ parser_repr = <<>>
    /\ errors = <<>>

Init ==
    /\ InitMachine
    /\ InitEncoder
    /\ InitParser
    /\ intermediate_repr = <<>>

SetMachine(m) ==
    /\ code_memory' = m.code_memory
    /\ data_memory' = m.data_memory
    /\ registers' = m.registers
    /\ pc' = m.pc
    /\ halted' = m.halted
    /\ stats' = m.stats
    /\ halt_cause' = m.halt_cause

\* UVMMemory.load_program, called once on the machine just constructed
\* (InterpreterCLI.run).
LoadProgram(path) ==
    /\ call.op = "init"
    /\ binary_path' = path
    /\ SetMachine([Machine EXCEPT !.code_memory = FileBytes(path)])
    /\ call' = [op |-> "load", arg |-> 0]
    /\ ret' = FALSE
    /\ raised' = FALSE
    /\ UNCHANGED <<step_calls, reported, succeeded>>
    /\ UNCHANGED encoder_vars
    /\ UNCHANGED <<parser_vars, xml, prev_xml>>

\* A call of UVMMemory.step on the loaded machine.
Step ==
    /\ call.op \in {"load", "step", "run", "dump"}
    /\ LET s == step(Machine)
       IN  /\ SetMachine(s.m)
           /\ ret' = s.ret
           /\ succeeded' = Succeeded(Machine, IF s.ret THEN 1 ELSE 0)
    /\ raised' = FALSE
    /\ call' = [op |-> "step", arg |-> 0]
    /\ UNCHANGED <<binary_path, step_calls, reported>>
    /\ UNCHANGED encoder_vars
    /\ UNCHANGED <<parser_vars, xml>>
    /\ prev_xml' = NoXml

\* A call of UVMMemory.run(max_steps) on the loaded machine.
Run(max_steps) ==
    /\ call.op \in {"load", "step", "run", "dump"}
    /\ LET r == run(Machine, max_steps)
       IN  /\ SetMachine(r.m)
           /\ ret' = r.ret
           /\ step_calls' = r.calls
           /\ reported' = reported \cup {<<run_cause(r, max_steps), r.ret>>}
           /\ succeeded' = Succeeded(Machine, r.step_count)
    /\ raised' = FALSE
    /\ call' = [op |-> "run", arg |-> max_steps]
    /\ UNCHANGED binary_path
    /\ UNCHANGED encoder_vars
    /\ UNCHANGED <<parser_vars, xml>>
    /\ prev_xml' = NoXml

\* InterpreterCLI.__init__: the next invocation constructs a new machine.
Reset ==
    /\ call.op \in {"step", "run"}
    /\ SetMachine(NewMachine)
    /\ binary_path' = NoFile
    /\ call' = NoCall
    /\ ret' = FALSE
    /\ raised' = FALSE
    /\ step_calls' = 0
    /\ succeeded' = NoSuccess
    /\ UNCHANGED reported
    /\ UNCHANGED encoder_vars
    /\ UNCHANGED <<parser_vars, xml, prev_xml>>

Next ==
    \/ \E path \in Files : LoadProgram(path)
    \/ Step
    \/ \E max_steps \in 0..MaxSteps : Run(max_steps)

Spec == Init /\ [][Next]_vars

\* Several invocations of the interpreter, each on its own machine.
NextRuns ==
    \/ \E path \in RunFiles : LoadProgram(path)
    \/ Step
    \/ \E max_steps \in 0..MaxSteps : Run(max_steps)
    \/ Reset

SpecRuns == Init /\ [][NextRuns]_vars

\* ------------------------------------------------------------------------
\* Running a program and taking memory dumps
\* ------------------------------------------------------------------------
\* Programs that leave non-zero values in registers and in data-memory cells
\* at both ends of the memory and on either side of address 100, and a cell
\* and a register that were written with 0.
DumpPrograms ==
    { <<>>,
      << Cmd(LOAD_CONST, 7, 1), Cmd(LOAD_CONST, 5, 2), Cmd(WRITE_MEM, 1, 2),
         Cmd(READ_MEM, 3, 1) >>,
      << Cmd(LOAD_CONST, 1023, 1), Cmd(LOAD_CONST, 1048575, 31), Cmd(WRITE_MEM, 1, 31) >>,
      << Cmd(LOAD_CONST, 9, 4), Cmd(WRITE_MEM, 0, 4), Cmd(LOAD_CONST, 0, 4),
         Cmd(WRITE_MEM, 0, 4) >>,
      << Cmd(LOAD_CONST, 99, 1), Cmd(WRITE_MEM, 1, 1), Cmd(LOAD_CONST, 100, 2),
         Cmd(WRITE_MEM, 2, 2) >> }

DumpFiles == { RawFile(encode_loop(l, <<>>)) : l \in DumpPrograms }

\* Ranges asked of dump_memory_xml, <<start_addr, end_addr>>: the default
\* (end_addr = None), the default of the command line, a one-cell range, an
\* empty one, one reaching beyond the memory, and two with a negative start.
DumpRanges ==
    { <<0, <<>>>>, <<0, <<32>>>>, <<7, <<8>>>>, <<8, <<7>>>>, <<1000, <<2000>>>>,
      <<-1, <<8>>>>, <<-1025, <<0>>>> }

\* A call of UVMMemory.dump_memory_xml(start_addr, end_addr).
Dump(start_addr, end_addr) ==
    /\ call.op \in {"load", "step", "run", "dump"}
    /\ LET d == dump_memory_xml(Machine, start_addr, end_addr)
       IN  /\ SetMachine(d.m)
           /\ xml' = IF d.raised THEN xml ELSE d.xml
           /\ raised' = d.raised
    /\ prev_xml' = IF call.op = "dump" /\ ~raised THEN xml ELSE NoXml
    /\ call' = [op |-> "dump", arg |-> 0]
    /\ ret' = FALSE
    /\ UNCHANGED <<binary_path, step_calls, reported, succeeded>>
    /\ UNCHANGED encoder_vars
    /\ UNCHANGED parser_vars

NextDump ==
    \/ \E path \in DumpFiles : LoadProgram(path)
    \/ Step
    \/ \E max_steps \in 0..MaxSteps : Run(max_steps)
    \/ \E range \in DumpRanges : Dump(range[1], range[2])

SpecDump == Init /\ [][NextDump]_vars

\* ------------------------------------------------------------------------
\* The encoder, and decoding what it produced
\* ------------------------------------------------------------------------
\* A caller holds a command list and a new CommandEncoder.
InitEnc ==
    /\ InitMachine
    /\ InitEncoder
    /\ InitParser
    /\ intermediate_repr \in CommandLists

\* CommandEncoder.encode_program(intermediate_repr).  Nothing in it can raise
\* for commands that carry an opcode and integer operands B and C.
EncodeProgram ==
    /\ binary_data' = encode_loop(intermediate_repr, <<>>)
    /\ encoded_commands' =
          [i \in 1..Len(intermediate_repr) |->
              [command |-> intermediate_repr[i],
               bytes |-> encode_command(intermediate_repr[i])]]
    /\ call' = [op |-> "encode_program", arg |-> 0]
    /\ ret' = FALSE
    /\ raised' = FALSE
    /\ UNCHANGED <<intermediate_repr, out_file, decoded>>
    /\ UNCHANGED machine_vars
    /\ UNCHANGED <<binary_path, step_calls, reported, succeeded>>
    /\ UNCHANGED <<parser_vars, xml, prev_xml>>

\* CommandEncoder.save_to_file(output_path)
SaveToFile ==
    /\ out_file' = [exists |-> TRUE, bytes |-> binary_data]
    /\ call' = [op |-> "save_to_file", arg |-> 0]
    /\ ret' = FALSE
    /\ raised' = FALSE
    /\ UNCHANGED <<intermediate_repr, binary_data, encoded_commands, decoded>>
    /\ UNCHANGED machine_vars
    /\ UNCHANGED <<binary_path, step_calls, reported, succeeded>>
    /\ UNCHANGED <<parser_vars, xml, prev_xml>>

\* UVMMemory.decode_instruction applied to the bytes encode_command returned
\* for the i-th command.
DecodeEncoded(i) ==
    /\ i \in 1..Len(encoded_commands)
    /\ LET d == decode_instruction(encoded_commands[i].bytes)
       IN  /\ decoded' = [index |-> i, ok |-> d.ok, opcode |-> d.opcode,
                          operands |-> d.operands]
           /\ raised' = ~d.ok
    /\ call' = [op |-> "decode_instruction", arg |-> i]
    /\ ret' = FALSE
    /\ UNCHANGED <<intermediate_repr, binary_data, encoded_commands, out_file>>
    /\ UNCHANGED machine_vars
    /\ UNCHANGED <<binary_path, step_calls, reported, succeeded>>
    /\ UNCHANGED <<parser_vars, xml, prev_xml>>

NextEnc ==
    \/ EncodeProgram
    \/ SaveToFile
    \/ \E i \in 1..(MaxCmds + 1) : DecodeEncoded(i)

SpecEnc == InitEnc /\ [][NextEnc]_vars

\* ------------------------------------------------------------------------
\* The toolchain: parse a YAML program, encode it, save it, load and run it
\* ------------------------------------------------------------------------
\* A YAML file, a new YamlParser, a new CommandEncoder and a new machine.
InitAsm ==
    /\ InitMachine
    /\ InitEncoder
    /\ intermediate_repr = <<>>
    /\ yaml_data \in YamlFiles
    /\ parser_repr = <<>>
    /\ errors = <<>>

\* intermediate_repr = YamlParser().parse(yaml_path): the caller's list is
\* assigned only when parse returns.
Parse ==
    /\ call.op = "init"
    /\ LET r == parse(yaml_data)
       IN  /\ parser_repr' = r.intermediate_repr
           /\ errors' = r.errors
           /\ raised' = ~r.returned
           /\ intermediate_repr' =
                 IF r.returned THEN r.intermediate_repr ELSE intermediate_repr
    /\ call' = [op |-> "parse", arg |-> 0]
    /\ ret' = FALSE
    /\ UNCHANGED <<yaml_data, xml, prev_xml>>
    /\ UNCHANGED <<binary_data, encoded_commands, out_file, decoded>>
    /\ UNCHANGED machine_vars
    /\ UNCHANGED <<binary_path, step_calls, reported, succeeded>>

\* encode_program on the list parse returned; an exception raised by parse
\* ends the invocation.
EncodeParsed ==
    /\ call.op = "parse"
    /\ ~raised
    /\ EncodeProgram

\* save_to_file after encode_program.
SaveEncoded ==
    /\ call.op = "encode_program"
    /\ SaveToFile

\* UVMMemory.load_program on the file save_to_file wrote.
LoadAssembled ==
    /\ call.op = "save_to_file"
    /\ binary_path' = OutFile
    /\ SetMachine([Machine EXCEPT !.code_memory = FileBytes(OutFile)])
    /\ call' = [op |-> "load", arg |-> 0]
    /\ ret' = FALSE
    /\ raised' = FALSE
    /\ UNCHANGED <<step_calls, reported, succeeded>>
    /\ UNCHANGED encoder_vars
    /\ UNCHANGED <<parser_vars, xml, prev_xml>>

NextAsm ==
    \/ Parse
    \/ EncodeParsed
    \/ SaveEncoded
    \/ LoadAssembled
    \/ Step
    \/ \E max_steps \in 0..MaxSteps : Run(max_steps)

SpecAsm == InitAsm /\ [][NextAsm]_vars

\* ------------------------------------------------------------------------
\* Decoding the words of a program file
\* ------------------------------------------------------------------------
\* 4-byte words: every opcode field of the instruction set and some outside
\* it, with the bits above the opcode field all clear, all set, or mixed.
BaseWords ==
    { <<b1, b2, b3, b4>> :
         b1 \in {29, 93, 221, 18, 210, 9, 201, 25, 217, 0, 10, 63, 255},
         b2 \in {0, 8, 255}, b3 \in {0, 255}, b4 \in {0, 3, 124, 127} }

\* Values for the two high bytes of a word.
HighBytes == { <<0, 0>>, <<1, 0>>, <<0, 128>>, <<255, 255>> }

\* The word w with its reserved bits replaced by those of the high bytes h:
\* bit 31 when the opcode field is LOAD_CONST, bits 16..31 otherwise.
WithReserved(w, h) ==
    IF w[1] % 64 = LOAD_CONST
    THEN <<w[1], w[2], w[3], (w[4] % 128) + 128 * (h[2] \div 128)>>
    ELSE <<w[1], w[2], h[1], h[2]>>

\* Program files of two words that differ at most in their reserved bits.
DecodeFiles == { RawFile(w \o WithReserved(w, h)) : w \in BaseWords, h \in HighBytes }

\* The i-th 4-byte word of the loaded code.
WordAt(i) == SubSeq(code_memory, 4 * i - 3, 4 * i)

\* UVMMemory.decode_instruction applied to the i-th word of the loaded code.
DecodeWord(i) ==
    /\ call.op \in {"load", "decode_instruction"}
    /\ i \in 1..(Len(code_memory) \div 4)
    /\ LET d == decode_instruction(WordAt(i))
       IN  /\ decoded' = [index |-> i, ok |-> d.ok, opcode |-> d.opcode,
                          operands |-> d.operands]
           /\ raised' = ~d.ok
    /\ call' = [op |-> "decode_instruction", arg |-> i]
    /\ ret' = FALSE
    /\ UNCHANGED <<intermediate_repr, binary_data, encoded_commands, out_file>>
    /\ UNCHANGED machine_vars
    /\ UNCHANGED <<binary_path, step_calls, reported, succeeded>>
    /\ UNCHANGED <<parser_vars, xml, prev_xml>>

NextDec ==
    \/ \E path \in DecodeFiles : LoadProgram(path)
    \/ \E i \in 1..2 : DecodeWord(i)

SpecDec == Init /\ [][NextDec]_vars

\* ------------------------------------------------------------------------
\* Properties
\* ------------------------------------------------------------------------
AnyInvalid(cmds) ==
    \E i \in 1..Len(cmds) : ~validate_command(cmds[i].opcode, cmds[i].operands)

\* C1 (round trip): whenever decode_instruction was applied to the bytes
\* encode_command returned for a command that passes validate_command (one of
\* the four opcodes, B and C within the family's ranges), it succeeded and
\* returned exactly that command's opcode, B and C.
C1_RoundTrip ==
    (/\ decoded.index \in 1..Len(encoded_commands)
     /\ validate_command(encoded_commands[decoded.index].command.opcode,
                         encoded_commands[decoded.index].command.operands))
    => /\ decoded.ok
       /\ decoded.opcode = encoded_commands[decoded.index].command.opcode
       /\ decoded.operands = encoded_commands[decoded.index].command.operands

\* A LOAD_CONST with the largest constant and register went through encode
\* and decode.
C1_Witness ==
    /\ decoded.index = 1
    /\ Len(encoded_commands) = 1
    /\ encoded_commands[1].command = Cmd(LOAD_CONST, 1048575, 31)
    /\ decoded.ok

\* C2 (validation before packing): whenever the command list handed to
\* encode_program holds a command that fails validate_command, the encode
\* ended with an error, binary_data is empty and no byte reached the file.
C2_EncodeAbortsOnInvalid ==
    AnyInvalid(intermediate_repr)
    => /\ binary_data = <<>>
       /\ out_file.bytes = <<>>
       /\ (call.op = "encode_program" => raised)

\* The machine as UVMMemory.__init__ and load_program leave it.
Fresh ==
    /\ pc = 0
    /\ ~halted
    /\ stats = NewMachine.stats
    /\ registers = NewMachine.registers
    /\ data_memory = NewMachine.data_memory

\* The next call is step(), or a run() that makes at least one step.
StepsNext == call'.op = "step" \/ (call'.op = "run" /\ call'.arg >= 1)

\* The word at pc is complete, decodes, and is a WRITE_MEM or READ_MEM whose
\* address register holds an address outside the data memory.
OutOfBoundsPending ==
    /\ ~halted
    /\ pc + 4 <= Len(code_memory)
    /\ LET d == decode_instruction(SubSeq(code_memory, pc + 1, pc + 4))
           addr == IF d.opcode = WRITE_MEM THEN registers[d.operands.B]
                   ELSE registers[d.operands.C]
       IN  /\ d.ok
           /\ d.opcode \in {WRITE_MEM, READ_MEM}
           /\ (addr >= data_size \/ addr < 0)

\* C3 (out of bounds): a step that executes a WRITE_MEM or READ_MEM whose
\* resolved address is >= data_size (or negative) halts the machine and
\* leaves every register, every data-memory cell and the three counters as
\* they were: the address is neither clamped nor wrapped.
C3_OutOfBoundsHalts ==
    [][ (OutOfBoundsPending /\ StepsNext)
        => /\ halted'
           /\ ~ret' \/ call'.op = "run"
           /\ registers' = registers
           /\ data_memory' = data_memory
           /\ stats' = stats ]_vars

\* A step failed on a WRITE_MEM to the first address beyond the data memory.
C3_Witness ==
    /\ call.op = "step"
    /\ halted
    /\ halt_cause = "bounds"
    /\ registers[0] = data_size
    /\ code_memory = encode_command(Cmd(LOAD_CONST, data_size, 0))
                     \o encode_command(Cmd(WRITE_MEM, 0, 1))

\* Instructions the program executes from the current state when no ceiling
\* stops it.
NaturalCount ==
    run(Machine, (Len(code_memory) \div 4) + 1).m.stats.instructions_executed
    - stats.instructions_executed

\* C4 (step ceiling): run(max_steps) on a fresh machine whose program would,
\* unlimited, execute more than max_steps instructions stops with
\* instructions_executed = max_steps and reports FALSE with the machine not
\* halted, while a run that reaches the natural end of the program reports
\* TRUE with the machine halted.
C4_StepCeiling ==
    [][ /\ (call'.op = "run" /\ Fresh /\ NaturalCount > call'.arg)
           => /\ stats'.instructions_executed = call'.arg
              /\ ~halted'
              /\ ret' = FALSE
        /\ (call'.op = "run" /\ halt_cause' = "end")
           => /\ halted'
              /\ ret' = TRUE ]_vars

\* run(2) stopped a four-instruction program at the ceiling.
C4_Witness ==
    /\ call.op = "run"
    /\ call.arg = 2
    /\ step_calls = 2
    /\ Len(code_memory) = 16
    /\ stats.instructions_executed = 2
    /\ ~halted
    /\ ret = FALSE

\* C5 (halt cause is reported): any two runs that ended for different causes
\* (end of program, malformed tail, decode failure, bounds failure, step
\* ceiling) reported different outcomes.
C5_HaltCauseReported ==
    \A x \in reported : \A y \in reported : x[1] # y[1] => x[2] # y[2]

\* C6 (normal end is a halt): whenever run has returned with pc at or beyond
\* the end of the code and every instruction of the program executed, the
\* machine is halted and run reported completion (TRUE), whatever the
\* ceiling was, the instruction count included.
C6_NormalEndIsHalt ==
    (/\ call.op = "run"
     /\ pc >= Len(code_memory)
     /\ 4 * stats.instructions_executed = Len(code_memory))
    => /\ halted
       /\ ret = TRUE

\* C7 (failure is terminal): a step or run called on a halted machine
\* executes nothing: registers, data memory, pc, the halted flag and the
\* counters stay as they are, and run makes no call of step.
C7_FailureIsTerminal ==
    [][ (halted /\ call'.op \in {"step", "run"})
        => /\ registers' = registers
           /\ data_memory' = data_memory
           /\ pc' = pc
           /\ halted'
           /\ stats' = stats
           /\ halt_cause' = halt_cause
           /\ (call'.op = "step" => ret' = FALSE)
           /\ (call'.op = "run" => step_calls' = 0) ]_vars

\* run with a positive ceiling returned at once on a machine that a bad word
\* had halted, with a further word waiting after the bad one.
C7_Witness ==
    /\ call.op = "run"
    /\ call.arg > 0
    /\ step_calls = 0
    /\ halted
    /\ halt_cause = "decode"
    /\ pc < Len(code_memory)

\* A full word is read by the next step.
FullRead == ~halted /\ pc + 4 <= Len(code_memory)

\* One to three bytes remain at pc for the next step.
PartialRead == ~halted /\ pc < Len(code_memory) /\ pc + 4 > Len(code_memory)

\* C8 as claimed (per-step pc contract): a step advances pc by exactly 4 if
\* and only if it read a full 4 bytes, and leaves pc unchanged when pc is at
\* or beyond the end of the code or fewer than 4 bytes remain.
C8_PcUnchangedOnShortRead ==
    [][ call'.op = "step"
        => /\ (pc' = pc + 4) <=> FullRead
           /\ ~FullRead => pc' = pc ]_vars

\* C8 as amended: a step advances pc by exactly 4 if and only if it read a
\* full 4 bytes; it leaves pc unchanged when the machine is halted or pc is
\* at or beyond the end of the code; and when one to three bytes remain it
\* moves pc to the end of the code.
C8_PcContract ==
    [][ call'.op = "step"
        => /\ (pc' = pc + 4) <=> FullRead
           /\ PartialRead => pc' = Len(code_memory)
           /\ (~FullRead /\ ~PartialRead) => pc' = pc ]_vars

\* A step fetched a trailing partial word.
C8_Witness ==
    /\ call.op = "step"
    /\ halt_cause = "tail"
    /\ pc = Len(code_memory)
    /\ pc % 4 = 3

\* Number of complete words of the loaded code.
CompleteWords == Len(code_memory) \div 4

\* C9 (malformed tail): a step that fetches a trailing partial word halts
\* the machine, returns FALSE, raises nothing, and changes no register, no
\* data-memory cell and no counter; and a run on a fresh machine whose code
\* length is not a multiple of 4, with a ceiling above the number of complete
\* words, none of which fails, ends halted on the tail having executed
\* exactly the complete words, with the registers and data memory they left.
C9_MalformedTail ==
    [][ /\ (call'.op = "step" /\ PartialRead)
           => /\ halted'
              /\ halt_cause' = "tail"
              /\ ret' = FALSE
              /\ ~raised'
              /\ registers' = registers
              /\ data_memory' = data_memory
              /\ stats' = stats
        /\ (/\ call'.op = "run"
            /\ Fresh
            /\ Len(code_memory) % 4 # 0
            /\ call'.arg > CompleteWords
            /\ run(Machine, CompleteWords).m.stats.instructions_executed = CompleteWords)
           => /\ halted'
              /\ halt_cause' = "tail"
              /\ ~raised'
              /\ stats'.instructions_executed = CompleteWords
              /\ registers' = run(Machine, CompleteWords).m.registers
              /\ data_memory' = run(Machine, CompleteWords).m.data_memory ]_vars

\* A run executed two complete words and then halted on a one-byte tail.
C9_Witness ==
    /\ call.op = "run"
    /\ halted
    /\ halt_cause = "tail"
    /\ Len(code_memory) = 9
    /\ stats.instructions_executed = 2
    /\ step_calls = 3

\* C10 (write then read): once the program LOAD_CONST(a, ri), LOAD_CONST(v,
\* rj), WRITE_MEM(ri, rj), READ_MEM(rk, ri), with a below data_size and
\* ri # rj, has been fetched to its end on a machine that started fresh, registers[rk] = v and
\* data_memory[a] = v, four instructions were executed, one memory write and
\* one memory read.
C10_WriteThenRead ==
    (binary_path.kind = "wtr" /\ pc = 16)
    => /\ registers[binary_path.p.rk] = binary_path.p.v
       /\ data_memory[binary_path.p.a] = binary_path.p.v
       /\ stats = [instructions_executed |-> 4, memory_reads |-> 1,
                   memory_writes |-> 1]

\* The instance of the specification: a = 100, v = 5, r0, r1, r2, run to its
\* natural end.
C10_Witness ==
    /\ binary_path = WTRFile([a |-> 100, v |-> 5, ri |-> 0, rj |-> 1, rk |-> 2])
    /\ code_memory = WTRCode(binary_path.p)
    /\ call.op = "run"
    /\ halted
    /\ halt_cause = "end"
    /\ registers[2] = 5
    /\ data_memory[100] = 5

\* The word at pc is complete and decodes to the instruction opcode.
Pending(opcode) ==
    /\ ~halted
    /\ pc + 4 <= Len(code_memory)
    /\ LET d == decode_instruction(SubSeq(code_memory, pc + 1, pc + 4))
       IN  d.ok /\ d.opcode = opcode

\* The next call executes exactly the instruction at pc: step(), or run(1).
OneStepNext == call'.op = "step" \/ (call'.op = "run" /\ call'.arg = 1)

\* C11 (ABS is a no-op that consumes a step): executing an ABS instruction,
\* whatever its B and C and whatever the registers and the data memory hold,
\* increments instructions_executed by exactly 1, advances pc by 4, does not
\* halt the machine, and leaves every register, every data-memory cell,
\* memory_reads and memory_writes unchanged.
C11_AbsIsNoOp ==
    [][ (Pending(ABS) /\ OneStepNext)
        => /\ stats'.instructions_executed = stats.instructions_executed + 1
           /\ pc' = pc + 4
           /\ ~halted'
           /\ (call'.op = "step" => ret' = TRUE)
           /\ registers' = registers
           /\ data_memory' = data_memory
           /\ stats'.memory_reads = stats.memory_reads
           /\ stats'.memory_writes = stats.memory_writes ]_vars

\* A step executed ABS(31, 2) on a machine whose r1, r2 and memory cell 7
\* were non-zero.
C11_Witness ==
    /\ call.op = "step"
    /\ pc = 16
    /\ SubSeq(code_memory, 13, 16) = encode_command(Cmd(ABS, 31, 2))
    /\ registers[1] = 7
    /\ registers[2] = 5
    /\ data_memory[7] = 5
    /\ stats.instructions_executed = 4
    /\ ~halted

\* The 32-bit word the instruction format prescribes for a valid command:
\* the opcode in bits 0..5, B from bit 6, C from bit 26 (LOAD_CONST) or from
\* bit 11 (READ_MEM, WRITE_MEM, ABS).
PackedWord(cmd) ==
    IF cmd.opcode = LOAD_CONST
    THEN cmd.opcode + 64 * cmd.operands.B + 67108864 * cmd.operands.C
    ELSE cmd.opcode + 64 * cmd.operands.B + 2048 * cmd.operands.C

\* The four bytes of a word, least significant first.
LittleEndian(w) ==
    << w % 256, (w \div 256) % 256, (w \div 65536) % 256, (w \div 16777216) % 256 >>

\* C12 (bit-exact packing): for every valid command handed to the encoder the
\* bytes encode_command returned are the 4-byte little-endian form of
\* opcode | (B << 6) | (C << 26) for LOAD_CONST and of opcode | (B << 6) |
\* (C << 11) for READ_MEM, WRITE_MEM and ABS, with the reserved bits zero
\* (bit 31, respectively bits 16..31); LOAD_CONST(515, r4) is DD 80 00 10,
\* READ_MEM(0, 2) is 12 10 00 00, WRITE_MEM(13, 24) is 49 C3 00 00 and
\* ABS(26, 22) is 99 B6 00 00.
C12_BitExactPacking ==
    \A i \in 1..Len(encoded_commands) :
        LET e == encoded_commands[i]
        IN  validate_command(e.command.opcode, e.command.operands)
            => /\ Len(e.bytes) = 4
               /\ e.bytes = LittleEndian(PackedWord(e.command))
               /\ (e.command.opcode = LOAD_CONST => e.bytes[4] < 128)
               /\ (e.command.opcode # LOAD_CONST => e.bytes[3] = 0 /\ e.bytes[4] = 0)
               /\ (e.command = Cmd(LOAD_CONST, 515, 4) => e.bytes = <<221, 128, 0, 16>>)
               /\ (e.command = Cmd(READ_MEM, 0, 2) => e.bytes = <<18, 16, 0, 0>>)
               /\ (e.command = Cmd(WRITE_MEM, 13, 24) => e.bytes = <<73, 195, 0, 0>>)
               /\ (e.command = Cmd(ABS, 26, 22) => e.bytes = <<153, 182, 0, 0>>)

\* The encoder packed the WRITE_MEM and the ABS fixture, in that order.
C12_Witness ==
    /\ call.op = "encode_program"
    /\ Len(encoded_commands) = 2
    /\ encoded_commands[1].command = Cmd(WRITE_MEM, 13, 24)
    /\ encoded_commands[1].bytes = <<73, 195, 0, 0>>
    /\ encoded_commands[2].command = Cmd(ABS, 26, 22)
    /\ encoded_commands[2].bytes = <<153, 182, 0, 0>>

\* The commands the instruction set admits: one of the four opcodes, C a
\* register index, B a 20-bit constant for LOAD_CONST and a register index
\* otherwise.
Admitted(opcode, operands) ==
    /\ opcode \in {29, 18, 9, 25}
    /\ "B" \in DOMAIN operands
    /\ "C" \in DOMAIN operands
    /\ operands.C \in 0..31
    /\ IF opcode = 29 THEN operands.B \in 0..1048575 ELSE operands.B \in 0..31

\* Command i of the parsed YAML file was reported as failing.
Reported(i) == \E k \in 1..Len(errors) : errors[k] = i

\* C13 (validation is exact): validate_command, applied by the parser to
\* each command that has an opcode and operands, succeeded if and only if
\* the opcode is one of 29, 18, 9, 25, C is in [0, 31] and B is in
\* [0, 0xFFFFF] for LOAD_CONST and in [0, 31] otherwise; every other input
\* failed with an error.
C13_ValidationExact ==
    (call.op # "init" /\ ~yaml_data.is_none /\ "commands" \in yaml_data.keys)
    => \A i \in 1..Len(yaml_data.commands) :
          LET c == yaml_data.commands[i]
          IN  ("opcode" \in DOMAIN c /\ "operands" \in DOMAIN c)
              => (~Reported(i) <=> Admitted(c.opcode, c.operands))

\* The parser rejected READ_MEM with B = 32 and accepted the LOAD_CONST that
\* follows it.
C13_Witness ==
    /\ call.op = "parse"
    /\ yaml_data = Yaml(<<Cmd(READ_MEM, 32, 0), Cmd(LOAD_CONST, 515, 4)>>)
    /\ errors = <<1>>
    /\ Len(parser_repr) = 1
    /\ parser_repr[1].index = 2

\* C14 (snapshot idempotence): a call of dump_memory_xml changes no register,
\* no data-memory cell, not pc, not the halted flag and no counter; and a
\* snapshot taken right after another one of the same range, with no step in
\* between, is identical to it.
C14_SnapshotIdempotent ==
    [][ call'.op = "dump"
        => /\ registers' = registers
           /\ data_memory' = data_memory
           /\ pc' = pc
           /\ halted' = halted
           /\ stats' = stats
           /\ (/\ prev_xml'.taken
               /\ ~raised'
               /\ prev_xml'.start_address = xml'.start_address
               /\ prev_xml'.end_address = xml'.end_address)
              => xml' = prev_xml' ]_vars

\* Two snapshots of the range [7, 8) were taken one after the other of a
\* machine that had executed four instructions, and both list cell 7.
C14_Witness ==
    /\ call.op = "dump"
    /\ ~raised
    /\ prev_xml.taken
    /\ prev_xml = xml
    /\ xml.start_address = 7
    /\ xml.end_address = 8
    /\ xml.instructions_executed = 4
    /\ xml.memory_cells = <<[address |-> 7, value |-> 5, hex |-> <<5>>]>>

\* The registers that hold a non-zero value.
NonZeroRegisters == { r \in DOMAIN registers : registers[r] # 0 }

\* The data-memory cells with an address in [start, end) that hold a
\* non-zero value.
NonZeroCells(start, end) ==
    { a \in DOMAIN data_memory : start <= a /\ a < end /\ data_memory[a] # 0 }

\* C15 (snapshot sparseness): the snapshot dump_memory_xml just returned for
\* the range [start, end) lists exactly the registers whose value is non-zero,
\* each once and with its value, and exactly the data-memory cells with an
\* address in [start, end), below the memory capacity, whose value is
\* non-zero, each once and with its value; no zero-valued register or cell
\* and no cell outside the range appears; and it reports the current
\* counters and pc.
C15_SnapshotSparse ==
    (call.op = "dump" /\ ~raised)
    => /\ xml.instructions_executed = stats.instructions_executed
       /\ xml.memory_reads = stats.memory_reads
       /\ xml.memory_writes = stats.memory_writes
       /\ xml.program_counter = pc
       /\ { xml.registers[k].id : k \in 1..Len(xml.registers) } = NonZeroRegisters
       /\ Len(xml.registers) = Cardinality(NonZeroRegisters)
       /\ \A k \in 1..Len(xml.registers) :
             xml.registers[k].value = registers[xml.registers[k].id]
       /\ { xml.memory_cells[k].address : k \in 1..Len(xml.memory_cells) }
             = NonZeroCells(xml.start_address, xml.end_address)
       /\ Len(xml.memory_cells)
             = Cardinality(NonZeroCells(xml.start_address, xml.end_address))
       /\ \A k \in 1..Len(xml.memory_cells) :
             xml.memory_cells[k].value = data_memory[xml.memory_cells[k].address]

\* C16 (program encoding): once encode_program has run on a list of n valid
\* commands, binary_data holds exactly 4*n bytes, and bytes [4*i, 4*i+4) are
\* the bytes of encode_command for the i-th command (counting from 0), in
\* input order.
C16_ProgramLayout ==
    (/\ encoded_commands # <<>> \/ call.op = "encode_program"
     /\ ~AnyInvalid(intermediate_repr))
    => /\ Len(binary_data) = 4 * Len(intermediate_repr)
       /\ Len(encoded_commands) = Len(intermediate_repr)
       /\ \A i \in 1..Len(intermediate_repr) :
             /\ encoded_commands[i].command = intermediate_repr[i]
             /\ SubSeq(binary_data, 4 * (i - 1) + 1, 4 * i) = encoded_commands[i].bytes
             /\ SubSeq(binary_data, 4 * (i - 1) + 1, 4 * i)
                   = LittleEndian(PackedWord(intermediate_repr[i]))

\* encode_program packed LOAD_CONST(515, r4) followed by READ_MEM(0, 2).
C16_Witness ==
    /\ call.op = "encode_program"
    /\ intermediate_repr = <<Cmd(LOAD_CONST, 515, 4), Cmd(READ_MEM, 0, 2)>>
    /\ binary_data = <<221, 128, 0, 16, 18, 16, 0, 0>>

\* The chunk read_instruction returns for the next step: the four bytes at
\* pc, or the bytes that remain when fewer than four are left.
Fetched == SubSeq(code_memory, pc + 1, Min(pc + 4, Len(code_memory)))

\* The fields of a 4-byte word, read off its bytes: the opcode is the low six
\* bits of byte 0; B is 20 bits from bit 6 and C five bits from bit 26 when
\* the opcode is 29, and B is five bits from bit 6 and C five bits from bit
\* 11 otherwise.
FieldsOf(word) ==
    IF word[1] % 64 = 29
    THEN [opcode |-> 29,
          operands |-> [B |-> (word[1] \div 64) + 4 * word[2] + 1024 * word[3]
                              + 262144 * (word[4] % 4),
                        C |-> (word[4] \div 4) % 32]]
    ELSE [opcode |-> word[1] % 64,
          operands |-> [B |-> (word[1] \div 64) + 4 * (word[2] % 8),
                        C |-> (word[2] \div 8) % 32]]

\* A chunk decode_instruction has to reject: not exactly 4 bytes, or 4 bytes
\* whose fields are not an admitted command.
Undecodable(chunk) ==
    \/ Len(chunk) # 4
    \/ ~Admitted(FieldsOf(chunk).opcode, FieldsOf(chunk).operands)

\* C17 (decode failure halts cleanly): when the chunk fetched by a step is
\* not exactly 4 bytes, or is a 4-byte word whose fields fail validation,
\* decode_instruction fails, the machine becomes halted, the step returns
\* FALSE, instructions_executed is not incremented, and the registers, the
\* data memory, memory_reads and memory_writes are unchanged.
C17_DecodeFailureHalts ==
    [][ (/\ StepsNext
         /\ ~halted
         /\ pc < Len(code_memory)
         /\ Undecodable(Fetched))
        => /\ halted'
           /\ halt_cause' \in {"tail", "decode"}
           /\ (call'.op = "step" => ret' = FALSE)
           /\ stats' = stats
           /\ registers' = registers
           /\ data_memory' = data_memory ]_vars

\* A step halted on a word with the opcode bits 63 after a LOAD_CONST had
\* executed.
C17_Witness ==
    /\ call.op = "step"
    /\ halted
    /\ halt_cause = "decode"
    /\ pc = 8
    /\ SubSeq(code_memory, 5, 8) = <<255, 255, 255, 255>>
    /\ registers[1] = 5
    /\ stats.instructions_executed = 1

\* C18 (assembled programs never fail to decode): while the machine runs the
\* file that save_to_file wrote from encode_program's output for commands
\* that all pass validate_command, the code is a whole number of words, the
\* machine is never halted by a malformed tail or a decode failure, and every
\* run ended by the end of the program, a memory bounds failure or the step
\* ceiling.
C18_AssembledDecodes ==
    (binary_path = OutFile /\ ~AnyInvalid(intermediate_repr))
    => /\ code_memory = binary_data
       /\ Len(code_memory) = 4 * Len(intermediate_repr)
       /\ halt_cause \in {"none", "end", "bounds"}
       /\ \A x \in reported : x[1] \in {"end", "bounds", "ceiling"}

\* A run of an assembled five-instruction program reached its end.
C18_Witness ==
    /\ binary_path = OutFile
    /\ Len(intermediate_repr) = 5
    /\ call.op = "run"
    /\ halted
    /\ halt_cause = "end"
    /\ stats.instructions_executed = 5
    /\ <<"end", TRUE>> \in reported

\* The commands of the YAML file that are not admitted, by index from 1.
FailingCommands ==
    { i \in 1..Len(yaml_data.commands) :
         LET c == yaml_data.commands[i]
         IN  ~(/\ "opcode" \in DOMAIN c
               /\ "operands" \in DOMAIN c
               /\ Admitted(c.opcode, c.operands)) }

\* C19 (front-end validation is all-or-nothing): once parse has run on a
\* YAML file with a command list, either every command is valid and parse
\* returned the whole list, in order, or some command is invalid and parse
\* ended with an error that reports every failing command, returned no list,
\* and nothing was encoded or written to a file afterwards.
C19_ParseAllOrNothing ==
    (call.op # "init" /\ ~yaml_data.is_none /\ "commands" \in yaml_data.keys)
    => IF FailingCommands = {}
       THEN /\ ~(call.op = "parse" /\ raised)
            /\ Len(intermediate_repr) = Len(yaml_data.commands)
            /\ \A i \in 1..Len(intermediate_repr) :
                  /\ intermediate_repr[i].index = i
                  /\ intermediate_repr[i].opcode = yaml_data.commands[i].opcode
                  /\ intermediate_repr[i].operands = yaml_data.commands[i].operands
       ELSE /\ call.op = "parse"
            /\ raised
            /\ intermediate_repr = <<>>
            /\ { errors[k] : k \in 1..Len(errors) } = FailingCommands
            /\ Len(errors) = Cardinality(FailingCommands)
            /\ binary_data = <<>>
            /\ encoded_commands = <<>>
            /\ ~out_file.exists

\* parse failed on a file whose first command is valid and whose second is
\* not: the parser kept the first, reported the second and returned nothing.
C19_Witness ==
    /\ call.op = "parse"
    /\ raised
    /\ yaml_data = Yaml(<<Cmd(LOAD_CONST, 515, 4), Cmd(ABS, 0, 32)>>)
    /\ errors = <<2>>
    /\ Len(parser_repr) = 1
    /\ intermediate_repr = <<>>

\* The word at pc is complete and is a WRITE_MEM whose address register
\* holds an address inside the data memory.
WriteInBoundsPending ==
    /\ ~halted
    /\ pc + 4 <= Len(code_memory)
    /\ FieldsOf(Fetched).opcode = 9
    /\ registers[FieldsOf(Fetched).operands.B] \in 0..(data_size - 1)

\* C20 (WRITE_MEM effect and frame): executing WRITE_MEM(B, C) with
\* addr = registers[B] inside the data memory sets data_memory[addr] to
\* registers[C], also when B = C, increments memory_writes and
\* instructions_executed by exactly 1 each, and leaves every register, every
\* other data-memory cell and memory_reads unchanged; the step succeeds.
C20_WriteMemEffect ==
    [][ (WriteInBoundsPending /\ OneStepNext)
        => LET B == FieldsOf(Fetched).operands.B
               C == FieldsOf(Fetched).operands.C
           IN  /\ data_memory' = [data_memory EXCEPT ![registers[B]] = registers[C]]
               /\ stats'.memory_writes = stats.memory_writes + 1
               /\ stats'.instructions_executed = stats.instructions_executed + 1
               /\ stats'.memory_reads = stats.memory_reads
               /\ registers' = registers
               /\ ~halted'
               /\ (call'.op = "step" => ret' = TRUE) ]_vars

\* A step executed a second WRITE_MEM, storing r1 = 7 at address r2 = 5 with
\* cell 7 already holding 5.
C20_Witness ==
    /\ call.op = "step"
    /\ pc = 16
    /\ SubSeq(code_memory, 13, 16) = encode_command(Cmd(WRITE_MEM, 2, 1))
    /\ data_memory[5] = 7
    /\ data_memory[7] = 5
    /\ stats.memory_writes = 2
    /\ stats.instructions_executed = 4

\* The word at pc is complete and is a READ_MEM whose address register holds
\* an address inside the data memory.
ReadInBoundsPending ==
    /\ ~halted
    /\ pc + 4 <= Len(code_memory)
    /\ FieldsOf(Fetched).opcode = 18
    /\ registers[FieldsOf(Fetched).operands.C] \in 0..(data_size - 1)

\* C21 (READ_MEM effect and frame): executing READ_MEM(B, C) with
\* addr = registers[C] inside the data memory sets registers[B] to
\* data_memory[addr], addr being the value of registers[C] before the step,
\* also when B = C; it increments memory_reads and instructions_executed by
\* exactly 1 each and leaves every other register, the whole data memory and
\* memory_writes unchanged; the step succeeds.
C21_ReadMemEffect ==
    [][ (ReadInBoundsPending /\ OneStepNext)
        => LET B == FieldsOf(Fetched).operands.B
               C == FieldsOf(Fetched).operands.C
           IN  /\ registers' = [registers EXCEPT ![B] = data_memory[registers[C]]]
               /\ stats'.memory_reads = stats.memory_reads + 1
               /\ stats'.instructions_executed = stats.instructions_executed + 1
               /\ stats'.memory_writes = stats.memory_writes
               /\ data_memory' = data_memory
               /\ ~halted'
               /\ (call'.op = "step" => ret' = TRUE) ]_vars

\* A step executed READ_MEM(1, 1) with r1 = 7 and cell 7 holding 5: r1 is now
\* 5, the content of cell 7, and cell 0 was never written.
C21_Witness ==
    /\ call.op = "step"
    /\ pc = 16
    /\ SubSeq(code_memory, 1, 4) = encode_command(Cmd(LOAD_CONST, 7, 1))
    /\ SubSeq(code_memory, 13, 16) = encode_command(Cmd(READ_MEM, 1, 1))
    /\ registers[1] = 5
    /\ data_memory[7] = 5
    /\ data_memory[0] = 0
    /\ stats.memory_reads = 1
    /\ stats.instructions_executed = 4

\* The word at pc is complete and its opcode bits are those of LOAD_CONST.
LoadConstPending ==
    /\ ~halted
    /\ pc + 4 <= Len(code_memory)
    /\ FieldsOf(Fetched).opcode = 29

\* C22 (LOAD_CONST effect and frame): executing LOAD_CONST(B, C) always
\* succeeds: it sets registers[C] to B, increments instructions_executed by
\* exactly 1, and leaves every other register, the whole data memory,
\* memory_reads and memory_writes unchanged.
C22_LoadConstEffect ==
    [][ (LoadConstPending /\ OneStepNext)
        => LET B == FieldsOf(Fetched).operands.B
               C == FieldsOf(Fetched).operands.C
           IN  /\ registers' = [registers EXCEPT ![C] = B]
               /\ stats'.instructions_executed = stats.instructions_executed + 1
               /\ stats'.memory_reads = stats.memory_reads
               /\ stats'.memory_writes = stats.memory_writes
               /\ data_memory' = data_memory
               /\ pc' = pc + 4
               /\ ~halted'
               /\ (call'.op = "step" => ret' = TRUE) ]_vars

\* A step executed LOAD_CONST(7, 1) on a machine whose r1 held 5, whose r31
\* was loaded by a word with the reserved bit set, and whose cell 5 was
\* written.
C22_Witness ==
    /\ call.op = "step"
    /\ pc = 16
    /\ SubSeq(code_memory, 13, 16) = encode_command(Cmd(LOAD_CONST, 7, 1))
    /\ registers[1] = 7
    /\ registers[31] = 1048574
    /\ data_memory[5] = 5
    /\ stats.instructions_executed = 4
    /\ stats.memory_writes = 1
    /\ ~halted

\* The register indices the decoded instruction d reads or writes lie in the
\* register file: C for every instruction, B for the register family.
RegisterIndicesInRange(d) ==
    /\ d.operands.C \in 0..(reg_count - 1)
    /\ (d.opcode # LOAD_CONST => d.operands.B \in 0..(reg_count - 1))

\* C23 (register indices are always in range): whatever bytes were loaded,
\* the operands decode_instruction hands to the instruction a step executes
\* index registers in [0, 31] only, and a step that fails in execution fails
\* on a memory address outside the data memory held by the address register
\* of a READ_MEM or WRITE_MEM, never on a register index.
C23_RegisterIndicesInRange ==
    [][ (OneStepNext /\ ~halted /\ pc + 4 <= Len(code_memory))
        => LET d == decode_instruction(Fetched)
           IN  /\ d.ok => RegisterIndicesInRange(d)
               /\ halt_cause' = "bounds"
                  => /\ d.ok
                     /\ d.opcode \in {READ_MEM, WRITE_MEM}
                     /\ LET addr_reg == IF d.opcode = READ_MEM THEN d.operands.C
                                        ELSE d.operands.B
                        IN  registers[addr_reg] \notin 0..(data_size - 1) ]_vars

\* A step executed the READ_MEM word whose 32 bits are all set but those of
\* the opcode field: it read cell 3 through r31 into r31.
C23_Witness ==
    /\ call.op = "step"
    /\ ret
    /\ pc = 8
    /\ SubSeq(code_memory, 5, 8) = <<210, 255, 255, 255>>
    /\ stats.memory_reads = 1
    /\ registers[31] = 0
    /\ ~halted

\* C24 (counter invariant): in every state reachable from a new machine,
\* instructions_executed is the number of steps that returned True (so each
\* of them added exactly 1 and no failed step added anything), memory_reads
\* is the number of those that executed READ_MEM, memory_writes the number of
\* those that executed WRITE_MEM, and memory_reads + memory_writes is at most
\* instructions_executed.
C24_CounterInvariant ==
    /\ stats.instructions_executed = succeeded.steps
    /\ stats.memory_reads = succeeded.read_mem
    /\ stats.memory_writes = succeeded.write_mem
    /\ stats.memory_reads + stats.memory_writes <= stats.instructions_executed

\* Three steps succeeded, one of them a WRITE_MEM, and the fourth, a READ_MEM
\* through a register holding 1048575, failed and halted the machine.
C24_Witness ==
    /\ call.op = "step"
    /\ ~ret
    /\ halted
    /\ halt_cause = "bounds"
    /\ pc = 16
    /\ SubSeq(code_memory, 13, 16) = encode_command(Cmd(READ_MEM, 1, 2))
    /\ succeeded = [steps |-> 3, read_mem |-> 0, write_mem |-> 1]
    /\ stats.instructions_executed = 3

\* C25 (program-counter invariant): on a machine that was constructed and
\* had a program loaded, 0 <= pc <= Len(code_memory) in every state, pc never
\* decreases, and while the machine is not halted pc = 4 *
\* instructions_executed.
C25_PcInvariant ==
    /\ [](/\ 0 <= pc
          /\ pc <= Len(code_memory)
          /\ (~halted => pc = 4 * stats.instructions_executed))
    /\ [][pc' >= pc]_vars

\* A step read the one byte left after a LOAD_CONST: the machine is halted
\* with pc at the code length, 5, and one instruction executed.
C25_Witness ==
    /\ call.op = "step"
    /\ halted
    /\ halt_cause = "tail"
    /\ Len(code_memory) = 5
    /\ pc = 5
    /\ stats.instructions_executed = 1

\* C26 (value-range invariant): after any sequence of steps from a new
\* machine, every register and every data-memory cell holds an integer in
\* [0, 0xFFFFF]; so the address a READ_MEM or WRITE_MEM takes from a register
\* is never negative.
C26_ValueRange ==
    /\ \A r \in 0..(reg_count - 1) : registers[r] \in 0..1048575
    /\ \A a \in 0..(data_size - 1) : data_memory[a] \in 0..1048575

\* The largest constant, 0xFFFFF, was loaded into r2 and stored in the last
\* cell of the data memory.
C26_Witness ==
    /\ call.op \in {"step", "run"}
    /\ registers[1] = 1023
    /\ registers[2] = 1048575
    /\ data_memory[1023] = 1048575
    /\ stats.memory_writes = 1

\* C27 (termination): every run(max_steps), max_steps >= 0, over a code
\* buffer of length L returns after at most min(max_steps, L \div 4 + 1)
\* calls of step, and every call of step on a machine that is not halted
\* either halts it or strictly increases pc.
C27_RunTerminates ==
    /\ [](call.op = "run"
          => step_calls <= Min(call.arg, (Len(code_memory) \div 4) + 1))
    /\ [][ (call'.op = "step" /\ ~halted) => (halted' \/ pc' > pc) ]_vars

\* run(5) on a one-instruction program returned after 2 calls of step: the
\* instruction, and the fetch that found the end of the code.
C27_Witness ==
    /\ call = [op |-> "run", arg |-> 5]
    /\ Len(code_memory) = 4
    /\ step_calls = 2
    /\ halted
    /\ halt_cause = "end"
    /\ stats.instructions_executed = 1

\* A machine just constructed, with the code of the current machine loaded.
FreshLoaded == [NewMachine EXCEPT !.code_memory = code_memory]

\* C28 (resumable run): when the machine is in the state run(k) leaves a new
\* machine with this code in, and run(m) is called next, the registers, the
\* data memory, pc, the halted flag and the counters are afterwards exactly
\* those that a single run(k + m) leaves a new machine with the same code in.
C28_ResumableRun ==
    [][ (/\ call.op = "run"
         /\ call'.op = "run"
         /\ Machine = run(FreshLoaded, call.arg).m)
        => Machine' = run(FreshLoaded, call.arg + call'.arg).m ]_vars

\* run(3) executed the last three instructions of a five-instruction program
\* and stopped at its ceiling, the first two having been executed before.
C28_Witness ==
    /\ call = [op |-> "run", arg |-> 3]
    /\ step_calls = 3
    /\ Len(code_memory) = 20
    /\ pc = 20
    /\ ~halted
    /\ stats.instructions_executed = 5
    /\ registers[1] = 7
    /\ registers[31] = 0
    /\ data_memory[5] = 5
    /\ Machine = run(FreshLoaded, 5).m

\* Two 4-byte words that differ at most in reserved bits: bit 31 when the
\* opcode field is 29, bits 16..31 otherwise.
SameButReserved(w, v) ==
    IF w[1] % 64 = 29
    THEN /\ w[1] = v[1]
         /\ w[2] = v[2]
         /\ w[3] = v[3]
         /\ w[4] % 128 = v[4] % 128
    ELSE /\ w[1] = v[1]
         /\ w[2] = v[2]

\* C29 (decode acceptance depends only on the opcode field): for every
\* 4-byte word, decode_instruction succeeds if and only if the low 6 bits of
\* the word are 29, 18, 9 or 25, whatever the other bits are, so validation
\* never fails on the operands it extracted; the instruction it returns has
\* the fields at their positions, and every word that differs from the
\* decoded one only in reserved bits decodes to the same instruction.
C29_DecodeAcceptance ==
    call.op = "decode_instruction"
    => LET w == WordAt(call.arg)
       IN  /\ decoded.ok <=> (w[1] % 64 \in {29, 18, 9, 25})
           /\ decoded.ok
              => /\ decoded.opcode = FieldsOf(w).opcode
                 /\ decoded.operands = FieldsOf(w).operands
           /\ \A j \in 1..(Len(code_memory) \div 4) :
                 SameButReserved(w, WordAt(j))
                 => LET d == decode_instruction(WordAt(j))
                    IN  /\ d.ok = decoded.ok
                        /\ d.ok => /\ d.opcode = decoded.opcode
                                   /\ d.operands = decoded.operands

\* decode_instruction accepted WRITE_MEM(31, 31) with bits 16..31 all set,
\* the second word of a file whose first word has them clear.
C29_Witness ==
    /\ call = [op |-> "decode_instruction", arg |-> 2]
    /\ code_memory = <<201, 255, 0, 0, 201, 255, 255, 255>>
    /\ decoded.ok
    /\ decoded.opcode = WRITE_MEM
    /\ decoded.operands = [B |-> 31, C |-> 31]
====
